---- MODULE Spec2Model ----
(***************************************************************************)
(* Verification model of the agentic-ai backend core:                      *)
(*   - the backend health tracker (LLMProvider.mark_error / reset_errors / *)
(*     can_retry) of core/llm_manager_fixed.py,                            *)
(*   - the generation router (LLMManager.generate) with its provider       *)
(*     adapters and the offline responder (LocalLLMProvider),              *)
(*   - the priority-group scheduler (OrchestratorAgent.execute_plan).      *)
(* Three specifications share the variables: Spec (health tracker driven   *)
(* operation by operation), SpecGen (generate calls over a configured      *)
(* provider list) and SpecPlan (one execution of a plan).                  *)
(***************************************************************************)
EXTENDS Integers, Sequences, FiniteSets, TLC

VARIABLES
  now,        \* the wall clock read by time.time(), in seconds
  providers,  \* LLMManager.providers: sequence of provider health records
  call,       \* the last health-tracker operation applied and what it returned
  hist,       \* per provider: how its state came about (streak of general errors, auth seen)
  gen,        \* the LLMManager.generate invocation in progress
  requests,   \* LLMManager.request_count
  sched,      \* the OrchestratorAgent.process invocation
  chat        \* the AIChatSystem.process_message invocation and the chat_messages collection

vars == <<now, providers, call, hist, gen, requests, sched, chat>>

----------------------------------------------------------------------------
(* Program constants *)

max_errors == 2
cooldown_period == 180
RateLimitWindow == 60
NoTime == 0          \* models None for last_error_time / rate_limit_reset_time

(* Bounds of the model *)

MaxTime == 250       \* the clock stops advancing past this instant
MaxErrorCount == 4   \* mark_error is not applied directly beyond this count

\* The clock advances by steps that land on, just after and well inside the
\* two windows (60 s rate-limit window, 180 s cooldown).
Deltas == {RateLimitWindow, RateLimitWindow + 1, cooldown_period - RateLimitWindow}

ErrorTypes == {"general", "rate_limit", "auth"}

----------------------------------------------------------------------------
(* LLMProvider: constructor, mark_error, reset_errors, can_retry *)

\* LLMProvider.__init__ followed by the subclass constructor: the keyed
\* adapters (mistral, binarybrained, openai) start unavailable without a key.
NewProvider(kind, has_key) ==
  [ kind |-> kind,
    has_key |-> has_key,
    available |-> IF kind \in {"mistral", "binarybrained", "openai"}
                  THEN has_key ELSE TRUE,
    error_count |-> 0,
    last_error_time |-> NoTime,
    rate_limited |-> FALSE,
    rate_limit_reset_time |-> NoTime ]

\* Mutant: the disabling threshold is off by one (> instead of >=).
mark_error_late(p, error_type, t) ==
  LET p1 == [p EXCEPT !.error_count = @ + 1, !.last_error_time = t]
      p2 == IF error_type = "rate_limit"
            THEN [p1 EXCEPT !.rate_limited = TRUE,
                            !.rate_limit_reset_time = t + RateLimitWindow]
            ELSE IF error_type = "auth"
            THEN [p1 EXCEPT !.available = FALSE, !.error_count = max_errors]
            ELSE p1
  IN IF p2.error_count > max_errors
     THEN [p2 EXCEPT !.available = FALSE]
     ELSE p2

mark_error(p, error_type, t) ==
  LET p1 == [p EXCEPT !.error_count = @ + 1, !.last_error_time = t]
      p2 == IF error_type = "rate_limit"
            THEN [p1 EXCEPT !.rate_limited = TRUE,
                            !.rate_limit_reset_time = t + RateLimitWindow]
            ELSE IF error_type = "auth"
            THEN [p1 EXCEPT !.available = FALSE, !.error_count = max_errors]
            ELSE p1
  IN IF p2.error_count >= max_errors
     THEN [p2 EXCEPT !.available = FALSE]
     ELSE p2

\* Mutant: the time of the last error survives a reset.
reset_errors_keeps_error_time(p) ==
  [p EXCEPT !.error_count = 0,
            !.available = TRUE,
            !.rate_limited = FALSE,
            !.rate_limit_reset_time = NoTime]

\* Mutant: the rate-limit flags survive a reset.
reset_errors_keeps_rate_limit(p) ==
  [p EXCEPT !.error_count = 0,
            !.available = TRUE,
            !.last_error_time = NoTime]

reset_errors(p) ==
  [p EXCEPT !.error_count = 0,
            !.available = TRUE,
            !.last_error_time = NoTime,
            !.rate_limited = FALSE,
            !.rate_limit_reset_time = NoTime]

\* Mutant: the rate-limit window is still closed at the reset instant itself.
can_retry_window_inclusive(p, t) ==
  LET limited == p.rate_limited /\ p.rate_limit_reset_time # NoTime
      p1 == IF limited /\ ~(t <= p.rate_limit_reset_time)
            THEN [p EXCEPT !.rate_limited = FALSE,
                           !.rate_limit_reset_time = NoTime]
            ELSE p
  IN IF limited /\ t <= p.rate_limit_reset_time
     THEN [ret |-> FALSE, p |-> p]
     ELSE IF p1.available
     THEN [ret |-> TRUE, p |-> p1]
     ELSE IF p1.last_error_time # NoTime
             /\ (t - p1.last_error_time) > cooldown_period
     THEN [ret |-> TRUE, p |-> reset_errors(p1)]
     ELSE [ret |-> FALSE, p |-> p1]

\* can_retry both answers and mutates: ret is the answer, p the provider after.
can_retry(p, t) ==
  LET limited == p.rate_limited /\ p.rate_limit_reset_time # NoTime
      p1 == IF limited /\ ~(t < p.rate_limit_reset_time)
            THEN [p EXCEPT !.rate_limited = FALSE,
                           !.rate_limit_reset_time = NoTime]
            ELSE p
  IN IF limited /\ t < p.rate_limit_reset_time
     THEN [ret |-> FALSE, p |-> p]
     ELSE IF p1.available
     THEN [ret |-> TRUE, p |-> p1]
     ELSE IF p1.last_error_time # NoTime
             /\ (t - p1.last_error_time) > cooldown_period
     THEN [ret |-> TRUE, p |-> reset_errors(p1)]
     ELSE [ret |-> FALSE, p |-> p1]

Healthy(p) ==
  /\ p.available
  /\ p.error_count = 0
  /\ ~p.rate_limited
  /\ p.last_error_time = NoTime

----------------------------------------------------------------------------
(* History kept beside the program state, for the claims that speak of how *)
(* a backend got where it is.                                              *)

NoCall == [op |-> "none", arg |-> "", ret |-> FALSE,
           pre |-> NewProvider("base", TRUE), at |-> 0,
           streak |-> -1, auth |-> FALSE]

\* streak: number of mark_error("general") applied since the backend was
\*         healthy with nothing else applied in between (-1: not such a run).
\* auth:   an auth failure was recorded and no reset_errors call (RecordSuccess)
\*         has been made since.
NewHist(p) == [streak |-> IF Healthy(p) THEN 0 ELSE -1, auth |-> FALSE]

IdleSched == [phase |-> "none", plan |-> <<>>]

\* No process_message call has been made.
IdleChat == [pc |-> "none"]

----------------------------------------------------------------------------
(* Spec: one provider driven operation by operation *)

Init ==
  /\ now = 1
  /\ providers = <<NewProvider("mistral", TRUE)>>
  /\ call = NoCall
  /\ hist = <<NewHist(providers[1])>>
  /\ gen = [pc |-> "idle"]
  /\ requests = 0
  /\ chat = IdleChat
  /\ sched = IdleSched

Tick ==
  /\ \E d \in Deltas :
       /\ now + d <= MaxTime
       /\ now' = now + d
  /\ UNCHANGED <<providers, call, hist, gen, requests, sched, chat>>

MarkError ==
  \E error_type \in ErrorTypes :
    LET p == providers[1]
        q == mark_error(p, error_type, now)
    IN /\ p.error_count < MaxErrorCount
       /\ providers' = [providers EXCEPT ![1] = q]
       /\ call' = [op |-> "mark_error", arg |-> error_type, ret |-> FALSE,
                   pre |-> p, at |-> now,
                   streak |-> hist[1].streak, auth |-> hist[1].auth]
       /\ hist' = [hist EXCEPT
                     ![1].streak = IF error_type = "general" /\ @ >= 0
                                   THEN @ + 1 ELSE -1,
                     ![1].auth = @ \/ error_type = "auth"]
       /\ UNCHANGED <<now, gen, requests, sched, chat>>

ResetErrors ==
  LET p == providers[1]
      q == reset_errors(p)
  IN /\ providers' = [providers EXCEPT ![1] = q]
     /\ call' = [op |-> "reset_errors", arg |-> "", ret |-> FALSE,
                 pre |-> p, at |-> now,
                 streak |-> hist[1].streak, auth |-> hist[1].auth]
     /\ hist' = [hist EXCEPT ![1] = [streak |-> 0, auth |-> FALSE]]
     /\ UNCHANGED <<now, gen, requests, sched, chat>>

CanRetry ==
  LET p == providers[1]
      r == can_retry(p, now)
  IN /\ providers' = [providers EXCEPT ![1] = r.p]
     /\ call' = [op |-> "can_retry", arg |-> "", ret |-> r.ret,
                 pre |-> p, at |-> now,
                 streak |-> hist[1].streak, auth |-> hist[1].auth]
     /\ hist' = [hist EXCEPT
                   ![1].streak = IF Healthy(r.p) THEN 0
                                 ELSE IF r.p = p THEN @ ELSE -1]
     /\ UNCHANGED <<now, gen, requests, sched, chat>>

Next == Tick \/ MarkError \/ ResetErrors \/ CanRetry

Spec == Init /\ [][Next]_vars

----------------------------------------------------------------------------
(* Provider adapters: what one provider.generate call does to the health   *)
(* record and what it raises.  An exception message is modelled by the set *)
(* of search strings (lower case) that occur in it; the text of an HTTP    *)
(* error body is taken to contain none of them.  marks lists the error     *)
(* types the adapter passed to mark_error, in call order.                  *)

MaxRequests == 2     \* generate is invoked at most this many times
MaxRetries == 3      \* largest explicit max_retries argument

Outcomes == {"ok", "invalid", "http401", "http403", "http429", "http500", "timeout"}

StatusDigits(outcome) ==
  CASE outcome = "http401" -> {"401"}
    [] outcome = "http403" -> {"403"}
    [] outcome = "http429" -> {"429"}
    [] outcome = "http500" -> {"500"}
    [] OTHER -> {}

\* The check made before the try block: raises without touching the health record.
NotAvailable(p) ==
  CASE p.kind \in {"mistral", "binarybrained", "openai"} ->
         ~p.available \/ ~p.has_key
    [] p.kind = "huggingface" -> ~p.available
    [] OTHER -> FALSE

\* MistralProvider.generate / BinaryBrainedProvider.generate once the HTTP
\* response (or the 30 s timeout) is in: 401 and 429 are marked in the status
\* branch, and the except clause marks once more unless the message carries
\* "Authentication failed".
KeyedChatGenerate(p, outcome, t) ==
  CASE outcome = "ok" ->
         [ok |-> TRUE, p |-> reset_errors(p), msg |-> {}, marks |-> <<>>]
    [] outcome = "http401" ->
         [ok |-> FALSE, p |-> mark_error(p, "auth", t),
          msg |-> {"authentication failed"}, marks |-> <<"auth">>]
    [] outcome = "http429" ->
         [ok |-> FALSE,
          p |-> mark_error(mark_error(p, "rate_limit", t), "general", t),
          msg |-> {"rate limit"}, marks |-> <<"rate_limit", "general">>]
    [] outcome \in {"http403", "http500"} ->
         [ok |-> FALSE, p |-> mark_error(p, "general", t),
          msg |-> StatusDigits(outcome), marks |-> <<"general">>]
    [] OTHER ->
         [ok |-> FALSE, p |-> mark_error(p, "general", t), msg |-> {},
          marks |-> <<"general">>]

\* OpenAIProvider.generate / HuggingFaceProvider.generate: every non-200
\* status raises "API error: <status> - <body>" and the except clause marks once.
PlainGenerate(p, outcome, t) ==
  CASE outcome = "ok" ->
         [ok |-> TRUE, p |-> reset_errors(p), msg |-> {}, marks |-> <<>>]
    [] OTHER ->
         [ok |-> FALSE, p |-> mark_error(p, "general", t),
          msg |-> StatusDigits(outcome), marks |-> <<"general">>]

ProviderGenerate(p, outcome, t) ==
  IF p.kind \in {"mistral", "binarybrained"}
  THEN KeyedChatGenerate(p, outcome, t)
  ELSE PlainGenerate(p, outcome, t)

\* LocalLLMProvider.generate: the prompt is modelled by the word groups that
\* occur in it; the first matching rule decides.
LocalGenerate(prompt) ==
  IF "greeting" \in prompt
  THEN "Hello! I'm currently running in offline mode."
  ELSE IF "code" \in prompt
  THEN "I'd love to help with coding, but I'm currently in offline mode."
  ELSE IF "error" \in prompt
  THEN "I understand you're experiencing an issue."
  ELSE "I received your message but I'm currently in offline mode."

Prompts == {{}, {"greeting"}, {"code", "error"}, {"error"}}

----------------------------------------------------------------------------
(* LLMManager.generate *)

\* Mutant: "429" is not recognised as a rate limit.
ClassifyWithout429(msg) ==
  IF "401" \in msg \/ "invalid credentials" \in msg \/ "unauthorized" \in msg
  THEN "auth"
  ELSE IF "rate limit" \in msg \/ "rate limited" \in msg
  THEN "rate_limit"
  ELSE "general"

\* The except clause's classification of str(e).lower().
Classify(msg) ==
  IF "401" \in msg \/ "invalid credentials" \in msg \/ "unauthorized" \in msg
  THEN "auth"
  ELSE IF "rate limit" \in msg \/ "429" \in msg \/ "rate limited" \in msg
  THEN "rate_limit"
  ELSE "general"

\* Mutant: every configured provider is returned, usable or not.
get_available_providers_unchecked(provs, t) ==
  [provs |-> provs, avail |-> [i \in 1 .. Len(provs) |-> i]]

\* get_available_providers: can_retry is applied to every provider in list
\* order (it mutates); the answer is the indices that were granted.
RECURSIVE ScanFrom(_, _, _)
ScanFrom(provs, i, t) ==
  IF i > Len(provs)
  THEN [provs |-> provs, avail |-> <<>>]
  ELSE LET r == can_retry(provs[i], t)
           rest == ScanFrom([provs EXCEPT ![i] = r.p], i + 1, t)
       IN [provs |-> rest.provs,
           avail |-> IF r.ret THEN <<i>> \o rest.avail ELSE rest.avail]

get_available_providers(provs, t) == ScanFrom(provs, 1, t)

LocalIdx == 0        \* stands for a LocalLLMProvider() created inside generate

\* Mutant: no local provider is substituted for an empty list.
CandidatesNoLocal(avail) == avail

\* Lines 432-435: an empty list is replaced by one fresh local provider.
Candidates(avail) == IF avail = <<>> THEN <<LocalIdx>> ELSE avail

\* Mutant: the last attempt is taken to be attempt = max_retries.
IsLastAttemptOffByOne(attempt, max_retries) == attempt = max_retries

\* Line 466: attempt == max_retries - 1
IsLastAttempt(attempt, max_retries) == attempt = max_retries - 1

NoResult == [src |-> -1, text |-> ""]

\* The provider call that has just ended, for as long as the loop has not
\* moved on: which provider, how the call ended, the provider's record
\* before the call, and the error types passed to mark_error because of it
\* (by the adapter, then by the manager).
NoLast ==
  [idx |-> -1, outcome |-> "none", before |-> NewProvider("none", FALSE),
   marks |-> <<>>]

IdleCall ==
  [pc |-> "idle", cands |-> <<>>, attempt |-> 0, max_retries |-> 0,
   mr |-> 0, prompt |-> {}, result |-> NoResult,
   empty |-> FALSE, healthy |-> FALSE, remote |-> 0, tried |-> 0,
   failed |-> 0, scenario |-> TRUE, last |-> NoLast]

\* Mutant: every attempt goes to the first candidate.
PickFirst(g) == g.cands[1]

PickIdx(g) == g.cands[(g.attempt % Len(g.cands)) + 1]

KindOf(provs, i) == IF i = LocalIdx THEN "local" ELSE provs[i].kind

\* The except clause of generate for a failed attempt on provider i whose
\* exception message is msg: the manager's own mark_error, then either the
\* local fallback (last attempt) or the next attempt; leaving the loop
\* without a return raises "All providers failed".
AfterFailure(g, provs, i, msg, t) ==
  LET provs1 == IF i = LocalIdx THEN provs
                ELSE [provs EXCEPT ![i] = mark_error(@, Classify(msg), t)]
  IN IF IsLastAttempt(g.attempt, g.max_retries) /\ KindOf(provs, i) # "local"
     THEN [provs |-> provs1,
           g |-> [g EXCEPT !.pc = "done",
                           !.result = [src |-> LocalIdx,
                                       text |-> LocalGenerate(g.prompt)]]]
     ELSE IF g.attempt + 1 < g.max_retries
     THEN [provs |-> provs1, g |-> [g EXCEPT !.attempt = @ + 1, !.pc = "loop"]]
     ELSE [provs |-> provs1, g |-> [g EXCEPT !.attempt = @ + 1, !.pc = "raised"]]

\* Provider lists the manager is constructed with (create_llm_manager adds
\* the adapters in the order mistral, binarybrained, openai, huggingface and a
\* local provider only when no key is configured; LLMManager([]) and keyless
\* adapters can be constructed directly).
Configs ==
  { <<>>,
    <<NewProvider("local", FALSE)>>,
    <<NewProvider("mistral", FALSE), NewProvider("openai", FALSE)>>,
    <<NewProvider("mistral", TRUE), NewProvider("huggingface", TRUE)>>,
    <<NewProvider("mistral", TRUE), NewProvider("openai", TRUE),
      NewProvider("huggingface", TRUE)>> }

InitGen ==
  /\ now = 1
  /\ providers \in Configs
  /\ call = NoCall
  /\ hist = <<>>
  /\ gen = IdleCall
  /\ requests = 0
  /\ chat = IdleChat
  /\ sched = IdleSched

\* The scenario of three backends of which the first two always answer with
\* a rate-limit error and the third always succeeds.
FitsScenario(i, outcome) ==
  /\ i \in {1, 2} => outcome = "http429"
  /\ i = 3 => outcome = "ok"

\* generate up to its first loop iteration: request_count, the candidate
\* snapshot, max_retries = max_retries or len(available_providers).
GenStart ==
  \E mr \in (-1 .. MaxRetries), prompt \in Prompts :
    LET scan == get_available_providers(providers, now)
        cands == Candidates(scan.avail)
        n == IF mr = 0 THEN Len(cands) ELSE mr
    IN /\ gen.pc = "idle"
       /\ requests < MaxRequests
       /\ requests' = requests + 1
       /\ providers' = scan.provs
       /\ gen' = [IdleCall EXCEPT
                    !.pc = IF n >= 1 THEN "loop" ELSE "raised",
                    !.cands = cands, !.max_retries = n, !.mr = mr,
                    !.prompt = prompt,
                    !.empty = (scan.avail = <<>>),
                    !.healthy = \A i \in 1 .. Len(providers) :
                                   Healthy(providers[i])]
       /\ UNCHANGED <<now, call, hist, sched, chat>>

\* One loop iteration up to the await of the remote call: the local provider
\* answers at once, an adapter that is not available raises before any
\* request, otherwise the request is in flight.
GenBegin ==
  /\ gen.pc = "loop"
  /\ IF gen.cands = <<>>
     THEN \* attempt % len([]) raises ZeroDivisionError outside the try block
          /\ gen' = [gen EXCEPT !.pc = "raised"]
          /\ UNCHANGED providers
     ELSE LET i == PickIdx(gen)
              g == [gen EXCEPT !.tried = @ + 1, !.last = NoLast]
          IN IF KindOf(providers, i) = "local"
             THEN /\ gen' = [g EXCEPT !.pc = "done",
                                      !.result = [src |-> i,
                                                  text |-> LocalGenerate(gen.prompt)]]
                  /\ UNCHANGED providers
             ELSE IF NotAvailable(providers[i])
             THEN LET r == AfterFailure(
                               [g EXCEPT !.failed = @ + 1,
                                         !.last = [idx |-> i,
                                                   outcome |-> "not_available",
                                                   before |-> providers[i],
                                                   marks |-> <<Classify({})>>]],
                               providers, i, {}, now)
                  IN /\ gen' = r.g
                     /\ providers' = r.provs
             ELSE /\ gen' = [g EXCEPT !.pc = "awaiting", !.remote = @ + 1]
                  /\ UNCHANGED providers
  /\ UNCHANGED <<now, call, hist, requests, sched, chat>>

\* The remote call completes (or its 30 s timeout fires): the adapter's own
\* bookkeeping, then the manager's.
GenEnd ==
  /\ gen.pc = "awaiting"
  /\ \E outcome \in Outcomes :
       LET i == PickIdx(gen)
           r == ProviderGenerate(providers[i], outcome, now)
           g == [gen EXCEPT
                   !.failed = IF r.ok THEN @ ELSE @ + 1,
                   !.scenario = @ /\ FitsScenario(i, outcome),
                   !.last = [idx |-> i, outcome |-> outcome,
                             before |-> providers[i],
                             marks |-> IF r.ok THEN r.marks
                                       ELSE r.marks \o <<Classify(r.msg)>>]]
       IN IF r.ok
          THEN /\ providers' = [providers EXCEPT ![i] = r.p]
               /\ gen' = [g EXCEPT !.pc = "done",
                                   !.result = [src |-> i, text |-> "generated text"]]
          ELSE LET f == AfterFailure(g, [providers EXCEPT ![i] = r.p], i, r.msg, now)
               IN /\ providers' = f.provs
                  /\ gen' = f.g
  /\ UNCHANGED <<now, call, hist, requests, sched, chat>>

\* generate has returned or raised; the manager is ready for the next call.
GenReturn ==
  /\ gen.pc \in {"done", "raised"}
  /\ gen' = IdleCall
  /\ UNCHANGED <<now, providers, call, hist, requests, sched, chat>>

\* Time passes only while no generate call is running or while it is
\* suspended on a remote call; the steps carry the clock just past the
\* rate-limit window or just past the cooldown.
GenDeltas == {RateLimitWindow + 1, cooldown_period + 1}

Elapse ==
  /\ gen.pc \in {"idle", "awaiting"}
  /\ \E d \in GenDeltas :
       /\ now + d <= MaxTime
       /\ now' = now + d
  /\ UNCHANGED <<providers, call, hist, gen, requests, sched, chat>>

NextGen == GenStart \/ GenBegin \/ GenEnd \/ GenReturn \/ Elapse

SpecGen == InitGen /\ [][NextGen]_vars

----------------------------------------------------------------------------
(* OrchestratorAgent.execute_plan / execute_task *)

MaxPlanLen == 3      \* longest plan
MaxPriority == 2     \* priorities range over 1 .. MaxPriority

\* self.max_concurrent_agents = kwargs.get('max_concurrent_agents', 3): the
\* default, and the value the concurrency test constructs the orchestrator
\* with.  initialize stores it; nothing in execute_plan reads it.
ConcurrencyLimits == {2, 3}

\* self.agents: the handler names that are registered.  Plans also name a
\* handler that is not.
Registry == {"echo"}
AgentNames == Registry \cup {"missing"}

\* Task ids by position in the plan list (unique within a plan).
TaskIds == <<"a", "b", "c", "d", "e">>

Tasks == [agent : AgentNames, priority : 1 .. MaxPriority]

Plans == UNION { [1 .. n -> Tasks] : n \in 0 .. MaxPlanLen }

\* How one execute_task call ends: the handler's response has success =
\* True with a data dict, or success = True with data left at None, or
\* success = False, or the handler raises, or wait_for times out.
HandlerOutcomes == {"success", "nodata", "failure", "raise", "timeout"}

\* execute_task's return value (lines 149, 151), or for a raising handler
\* the entry execute_plan builds from the exception gather hands back
\* (line 125).  by is the plan position of the task that produced it.
TaskResult(j, outcome) ==
  CASE outcome = "success" -> [kind |-> "data", why |-> "", by |-> j]
    [] outcome = "nodata" -> [kind |-> "none", why |-> "", by |-> j]
    [] outcome = "failure" -> [kind |-> "error", why |-> "response.error", by |-> j]
    [] outcome = "raise" -> [kind |-> "error", why |-> "exception", by |-> j]
    [] OTHER -> [kind |-> "error", why |-> "timed out", by |-> j]

SetMin(S) == CHOOSE x \in S : \A y \in S : x <= y
SetMax(S) == CHOOSE x \in S : \A y \in S : x >= y

\* Mutant: the groups are taken in descending priority.
RECURSIVE SortedDescending(_)
SortedDescending(S) ==
  IF S = {} THEN <<>>
  ELSE <<SetMax(S)>> \o SortedDescending(S \ {SetMax(S)})

\* sorted(priority_groups.keys())
RECURSIVE Sorted(_)
Sorted(S) ==
  IF S = {} THEN <<>>
  ELSE <<SetMin(S)>> \o Sorted(S \ {SetMin(S)})

\* priority_groups[priority]: the plan positions with that priority, in plan order.
RECURSIVE GroupFrom(_, _, _)
GroupFrom(plan, priority, j) ==
  IF j > Len(plan) THEN <<>>
  ELSE IF plan[j].priority = priority
  THEN <<j>> \o GroupFrom(plan, priority, j + 1)
  ELSE GroupFrom(plan, priority, j + 1)

\* Mutant: a group also holds the tasks of the groups before it.
GroupUpTo(plan, priority) ==
  SelectSeq([j \in 1 .. Len(plan) |-> j],
            LAMBDA j : plan[j].priority <= priority)

Group(plan, priority) == GroupFrom(plan, priority, 1)

\* Mutant: a task is held back until the tasks it depends on have ended.
RECURSIVE RunnableAfterDependencies(_, _)
RunnableAfterDependencies(plan, tasks) ==
  IF tasks = <<>> THEN <<>>
  ELSE IF /\ plan[Head(tasks)].agent \in Registry
          /\ \A l \in DOMAIN plan :
               ("dependencies" \in DOMAIN plan[Head(tasks)]
                /\ TaskIds[l] \in plan[Head(tasks)].dependencies) =>
                 sched.outcome[l] # "none"
  THEN <<Head(tasks)>> \o RunnableAfterDependencies(plan, Tail(tasks))
  ELSE RunnableAfterDependencies(plan, Tail(tasks))

\* concurrent_tasks: the tasks of the group whose agent is registered (lines 111-115).
RECURSIVE Runnable(_, _)
Runnable(plan, tasks) ==
  IF tasks = <<>> THEN <<>>
  ELSE IF plan[Head(tasks)].agent \in Registry
  THEN <<Head(tasks)>> \o Runnable(plan, Tail(tasks))
  ELSE Runnable(plan, Tail(tasks))

Range(f) == {f[x] : x \in DOMAIN f}

\* Lines 122-127: the i-th gathered result is stored under the id of the
\* i-th task of the group.
RECURSIVE StoreFrom(_, _, _, _, _)
StoreFrom(results, tasks, running, outcome, k) ==
  IF k > Len(running) THEN results
  ELSE StoreFrom((TaskIds[tasks[k]] :> TaskResult(running[k], outcome[running[k]]))
                   @@ results,
                 tasks, running, outcome, k + 1)

\* process has not returned yet.
NoResponse == [success |-> FALSE, result |-> "", error |-> ""]

\* How the consolidation call_llm ends: it returns text or it raises.
LLMOutcomes == {"ok", "fail"}

\* consolidate_results (lines 153-184).  The loop of lines 158-162 and
\* _format_results test "error" in result for every entry before the try
\* of line 175 is entered; on an entry that is None the test raises
\* TypeError.  Inside the try, call_llm's text is returned, or on an
\* exception one of the two fallback texts.
consolidate_results(results, llm) ==
  IF \E id \in DOMAIN results : results[id].kind = "none"
  THEN [raised |-> TRUE, text |-> "argument of type 'NoneType' is not iterable"]
  ELSE IF llm = "ok"
  THEN [raised |-> FALSE, text |-> "consolidated_response"]
  ELSE IF \E id \in DOMAIN results : results[id].kind = "error"
  THEN [raised |-> FALSE, text |-> "Completed with some errors"]
  ELSE [raised |-> FALSE, text |-> "All tasks completed successfully."]

\* The tail of process (lines 59-69): the AgentResponse built from the
\* consolidated text, or the one built by the except clause.
ProcessResponse(results, llm) ==
  LET c == consolidate_results(results, llm)
  IN IF c.raised
     THEN [success |-> FALSE, result |-> "", error |-> c.text]
     ELSE [success |-> TRUE, result |-> c.text, error |-> ""]

\* The locals of one execute_plan call.  Two fields are history only:
\* visited (the priorities the for loop has reached, in order) and
\* invocations (how many execute_task coroutines were created per task).
NewSched(plan, limit) ==
  [phase |-> "launch",
   max_concurrent_agents |-> limit,
   plan |-> plan,
   order |-> Sorted({plan[j].priority : j \in DOMAIN plan}),
   gi |-> 1,
   started |-> {},
   outcome |-> [j \in DOMAIN plan |-> "none"],
   results |-> <<>>,
   response |-> NoResponse,
   visited |-> <<>>,
   invocations |-> [j \in DOMAIN plan |-> 0]]

CurrentTasks(sc) == Group(sc.plan, sc.order[sc.gi])

InitPlan ==
  /\ now = 1
  /\ providers = <<>>
  /\ call = NoCall
  /\ hist = <<>>
  /\ gen = [pc |-> "idle"]
  /\ requests = 0
  /\ chat = IdleChat
  /\ \E plan \in Plans, limit \in ConcurrencyLimits : sched = NewSched(plan, limit)

\* The for loop reaches the next priority group: the coroutines of its
\* runnable tasks are created and handed to asyncio.gather, which starts
\* them all; a group with no runnable task is passed over.
LaunchGroup ==
  /\ sched.phase = "launch"
  /\ sched.gi <= Len(sched.order)
  /\ LET running == Runnable(sched.plan, CurrentTasks(sched))
     IN IF running = <<>>
        THEN sched' = [sched EXCEPT !.gi = @ + 1,
                                    !.visited = Append(@, sched.order[sched.gi])]
        ELSE sched' = [sched EXCEPT
                         !.phase = "gather",
                         !.started = @ \cup Range(running),
                         !.visited = Append(@, sched.order[sched.gi]),
                         !.invocations =
                           [j \in DOMAIN @ |->
                              @[j] + Cardinality({k \in DOMAIN running :
                                                   running[k] = j})]]
  /\ UNCHANGED <<now, providers, call, hist, gen, requests, chat>>

\* One execute_task call of the running group ends.
TaskFinish ==
  /\ sched.phase = "gather"
  /\ \E j \in sched.started, o \in HandlerOutcomes :
       /\ sched.outcome[j] = "none"
       /\ sched' = [sched EXCEPT !.outcome[j] = o]
  /\ UNCHANGED <<now, providers, call, hist, gen, requests, chat>>

\* gather returns once every task of the group has ended; the results are
\* stored and the loop moves on.
CollectGroup ==
  /\ sched.phase = "gather"
  /\ \A j \in sched.started : sched.outcome[j] # "none"
  /\ LET tasks == CurrentTasks(sched)
         running == Runnable(sched.plan, tasks)
     IN sched' = [sched EXCEPT
                    !.results = StoreFrom(@, tasks, running, sched.outcome, 1),
                    !.gi = @ + 1,
                    !.phase = "launch"]
  /\ UNCHANGED <<now, providers, call, hist, gen, requests, chat>>

\* return results
PlanReturn ==
  /\ sched.phase = "launch"
  /\ sched.gi > Len(sched.order)
  /\ sched' = [sched EXCEPT !.phase = "done"]
  /\ UNCHANGED <<now, providers, call, hist, gen, requests, chat>>

\* process, after execute_plan has returned: consolidate_results runs and
\* process returns its AgentResponse.
ProcessReturn ==
  /\ sched.phase = "done"
  /\ \E llm \in LLMOutcomes :
       sched' = [sched EXCEPT !.phase = "responded",
                              !.response = ProcessResponse(sched.results, llm)]
  /\ UNCHANGED <<now, providers, call, hist, gen, requests, chat>>

NextPlan == LaunchGroup \/ TaskFinish \/ CollectGroup \/ PlanReturn \/ ProcessReturn

SpecPlan == InitPlan /\ [][NextPlan]_vars

\* The event loop resumes a coroutine that can run, and every handler
\* invocation ends: it returns, raises, or wait_for cuts it off (line 139).
SpecPlanFair ==
  /\ SpecPlan
  /\ WF_vars(LaunchGroup)
  /\ WF_vars(TaskFinish)
  /\ WF_vars(CollectGroup)
  /\ WF_vars(PlanReturn)
  /\ WF_vars(ProcessReturn)

\* Plans whose steps carry the dependencies list the planner writes
\* (planner.py line 139): ids of other steps of the plan.  execute_plan is
\* the same code; it reads agent, priority and id of a step and nothing else.
MaxDepPlanLen == 2   \* longest plan with dependencies

OtherIds(n, k) == {TaskIds[l] : l \in (1 .. n) \ {k}}

DepPlansOfLen(n) ==
  {plan \in [1 .. n -> [agent : AgentNames, priority : 1 .. MaxPriority,
                        dependencies : SUBSET {TaskIds[l] : l \in 1 .. n}]] :
     \A k \in 1 .. n : plan[k].dependencies \subseteq OtherIds(n, k)}

DepPlans == UNION { DepPlansOfLen(n) : n \in 0 .. MaxDepPlanLen }

InitDeps ==
  /\ now = 1
  /\ providers = <<>>
  /\ call = NoCall
  /\ hist = <<>>
  /\ gen = [pc |-> "idle"]
  /\ requests = 0
  /\ chat = IdleChat
  /\ \E plan \in DepPlans, limit \in ConcurrencyLimits : sched = NewSched(plan, limit)

SpecDeps == InitDeps /\ [][NextPlan]_vars

----------------------------------------------------------------------------
(* OrchestratorAgent.create_plan / PlannerAgent.process / _validate_plan *)

MaxRawSteps == 2     \* longest list of steps the planning backend returns

\* A raw step is a dict: a function whose domain is the set of keys the
\* planning backend wrote.  Any of id, priority and agent may be left out;
\* an id may repeat or look like a default id; a priority may be zero or
\* negative; an agent may be one the planner does not know.
RawIds == {"research_task", "step_1"}
RawPriorities == {-1, 0, 1, 2}
RawAgents == {"coder", "plumber"}

Field(k, values) == {<<>>} \cup {k :> v : v \in values}

RawSteps ==
  {i @@ pr @@ a : i \in Field("id", RawIds),
                  pr \in Field("priority", RawPriorities),
                  a \in Field("agent", RawAgents)}

RawPlans == UNION { [1 .. n -> RawSteps] : n \in 0 .. MaxRawSteps }

\* dict.get(key, default)
Get(step, k, default) == IF k \in DOMAIN step THEN step[k] ELSE default

\* f"step_{i}" for the 0-based index i of enumerate
StepIds == <<"step_0", "step_1", "step_2", "step_3">>
StepId(i) == StepIds[i + 1]

valid_agents == {"researcher", "file_picker", "coder", "reviewer", "thinker"}

\* _validate_plan (lines 129-151); k is the 1-based position, so the
\* enumerate index is k - 1 and the default priority i + 1 is k.
validate_step(step, k) ==
  LET agent == Get(step, "agent", "coder")
  IN [id |-> Get(step, "id", StepId(k - 1)),
      agent |-> IF agent \in valid_agents THEN agent ELSE "coder",
      priority |-> Get(step, "priority", k)]

_validate_plan(plan) == [k \in 1 .. Len(plan) |-> validate_step(plan[k], k)]

\* The plan of planner.py lines 109-117 and of orchestrator.py lines 75, 91.
FallbackPlan == <<[id |-> "fallback_task", agent |-> "coder", priority |-> 1]>>

\* How PlannerAgent.process ends: the reply parses to a list of steps, the
\* reply is not JSON, or call_llm raises.
PlannerReplies == {"steps", "not_json", "llm_raises"}

\* create_plan (lines 71-91) with PlannerAgent.process (lines 58-127) inlined.
create_plan(has_planner, reply, raw) ==
  IF ~has_planner THEN FallbackPlan
  ELSE IF reply = "steps" THEN _validate_plan(raw)
  ELSE FallbackPlan

InitCreate ==
  /\ now = 1
  /\ providers = <<>>
  /\ call = NoCall
  /\ hist = <<>>
  /\ gen = [pc |-> "idle"]
  /\ requests = 0
  /\ chat = IdleChat
  /\ \E has_planner \in BOOLEAN :
       sched = [phase |-> "request", has_planner |-> has_planner,
                reply |-> "none", raw |-> <<>>, plan |-> <<>>]

\* process, Step 1: plan = await self.create_plan(user_request)
CreatePlan ==
  /\ sched.phase = "request"
  /\ \E reply \in PlannerReplies, raw \in RawPlans :
       /\ (~sched.has_planner \/ reply # "steps") => raw = <<>>
       /\ sched' = [sched EXCEPT !.phase = "planned",
                                 !.reply = reply,
                                 !.raw = raw,
                                 !.plan = create_plan(sched.has_planner, reply, raw)]
  /\ UNCHANGED <<now, providers, call, hist, gen, requests, chat>>

NextCreate == CreatePlan

SpecCreate == InitCreate /\ [][NextCreate]_vars

----------------------------------------------------------------------------
(* BinarybrainedSystem (main.py) with EnhancedOrchestratorAgent:            *)
(* _create_enhanced_plan and _execute_with_context                          *)

MaxEnhSteps == 2     \* longest list of steps the planner returns here

\* The names under which main.py registers its agents (agent.name of the
\* six agents of lines 63-70).
AssembledRegistry ==
  {"enhanced_coder", "planner", "researcher", "file_picker", "reviewer", "thinker"}

\* Raw steps of the planning backend: agent and priority present or absent.
EnhRawSteps ==
  {pr @@ a : pr \in Field("priority", {1, 2}),
             a \in Field("agent", {"coder", "researcher"})}

EnhRawPlans == UNION { [1 .. n -> EnhRawSteps] : n \in 0 .. MaxEnhSteps }

\* What _analyze_request makes of the request, as far as
\* _create_enhanced_plan branches on it.
Routes == {"image_generation", "coding_single", "architecture",
           "architecture_diagram", "other"}

\* _create_enhanced_plan (lines 358-433).  On the planner route the plan is
\* whatever PlannerAgent.process returns with success (its validated steps,
\* or its own fallback plan when the reply is not JSON); when it fails, the
\* orchestrator's fallback plan.
_create_enhanced_plan(route, reply, raw) ==
  CASE route = "image_generation" ->
         <<[id |-> "image_generation", agent |-> "image_generation", priority |-> 1]>>
    [] route = "coding_single" ->
         <<[id |-> "enhanced_coding", agent |-> "enhanced_coder", priority |-> 1]>>
    [] route = "architecture" ->
         <<[id |-> "architecture_design", agent |-> "enhanced_coder", priority |-> 1]>>
    [] route = "architecture_diagram" ->
         <<[id |-> "architecture_design", agent |-> "enhanced_coder", priority |-> 1],
           [id |-> "architecture_diagram", agent |-> "image_generation", priority |-> 2]>>
    [] OTHER ->
         IF "planner" \in AssembledRegistry /\ reply = "steps" THEN _validate_plan(raw)
         ELSE IF "planner" \in AssembledRegistry /\ reply = "not_json" THEN FallbackPlan
         ELSE <<[id |-> "fallback_enhanced_task", agent |-> "enhanced_coder",
                 priority |-> 1]>>

\* _full_process has not built its plan yet.
NewEnh ==
  [phase |-> "request", route |-> "none", plan |-> <<>>, k |-> 1, running |-> 0,
   started |-> <<>>, skipped |-> {}, results |-> <<>>]

InitEnh ==
  /\ now = 1
  /\ providers = <<>>
  /\ call = NoCall
  /\ hist = <<>>
  /\ gen = [pc |-> "idle"]
  /\ requests = 0
  /\ chat = IdleChat
  /\ sched = NewEnh

\* _full_process, line 264.
EnhCreatePlan ==
  /\ sched.phase = "request"
  /\ \E route \in Routes, reply \in PlannerReplies, raw \in EnhRawPlans :
       /\ route # "other" => (reply = "steps" /\ raw = <<>>)
       /\ reply # "steps" => raw = <<>>
       /\ sched' = [sched EXCEPT !.phase = "run", !.route = route,
                                 !.plan = _create_enhanced_plan(route, reply, raw)]
  /\ UNCHANGED <<now, providers, call, hist, gen, requests, chat>>

\* _execute_with_context, lines 439-451: the loop reaches the next step of
\* the plan list; a step whose agent is not registered is passed over, any
\* other is awaited before the loop goes on.
EnhStep ==
  /\ sched.phase = "run"
  /\ sched.running = 0
  /\ sched.k <= Len(sched.plan)
  /\ IF sched.plan[sched.k].agent \in AssembledRegistry
     THEN sched' = [sched EXCEPT !.running = sched.k,
                                 !.started = Append(@, sched.k)]
     ELSE sched' = [sched EXCEPT !.skipped = @ \cup {sched.k}, !.k = @ + 1]
  /\ UNCHANGED <<now, providers, call, hist, gen, requests, chat>>

\* Lines 451-454 with _execute_enhanced_task: the awaited task ends and its
\* result, or the error entry of the except clause, is stored under its id.
EnhTaskEnd ==
  /\ sched.phase = "run"
  /\ sched.running # 0
  /\ \E o \in HandlerOutcomes :
       sched' = [sched EXCEPT
                   !.results = (sched.plan[sched.running].id
                                  :> TaskResult(sched.running, o)) @@ @,
                   !.running = 0,
                   !.k = @ + 1]
  /\ UNCHANGED <<now, providers, call, hist, gen, requests, chat>>

\* return results
EnhReturn ==
  /\ sched.phase = "run"
  /\ sched.running = 0
  /\ sched.k > Len(sched.plan)
  /\ sched' = [sched EXCEPT !.phase = "done"]
  /\ UNCHANGED <<now, providers, call, hist, gen, requests, chat>>

NextEnh == EnhCreatePlan \/ EnhStep \/ EnhTaskEnd \/ EnhReturn

SpecEnh == InitEnh /\ [][NextEnh]_vars

----------------------------------------------------------------------------
(* Concurrent LLMManager.generate calls on one manager.  A call runs without *)
(* interruption from one suspension point to the next; the only suspension  *)
(* point is the adapter's await of the HTTP response.                        *)

MaxConcRequests == 3   \* generate is invoked at most this many times
Slots == {1, 2}        \* at most this many calls are in progress at once

ConcConfigs ==
  { <<NewProvider("mistral", TRUE)>>,
    <<NewProvider("mistral", TRUE), NewProvider("huggingface", TRUE)>> }

\* How a request ends: 200 with choices, 401, 429, or the 30 s timeout.
ConcOutcomes == {"ok", "http401", "http429", "timeout"}

\* The locals of one generate call.  granted_early and issued_early are
\* history: the candidate scan granted, or the loop sent a request to, a
\* provider whose recorded rate limit or auth failure was still running.
IdleConc ==
  [pc |-> "idle", cands |-> <<>>, attempt |-> 0, max_retries |-> 0,
   prompt |-> {}, result |-> NoResult,
   granted_early |-> FALSE, issued_early |-> FALSE]

\* Per provider: the last event recorded on it (mark_error or the adapter's
\* reset_errors after a response), and the instant before which the last
\* rate limit (RateLimitWindow) or auth failure (cooldown_period) recorded
\* on it has not run out.
NoEvents == [last |-> "none", until |-> 0]

Later(a, b) == IF a >= b THEN a ELSE b

NoteMarks(h, marks, t) ==
  IF marks = <<>> THEN h
  ELSE [last |-> "failure",
        until |-> IF \E k \in DOMAIN marks : marks[k] = "auth"
                  THEN Later(h.until, t + cooldown_period)
                  ELSE IF \E k \in DOMAIN marks : marks[k] = "rate_limit"
                  THEN Later(h.until, t + RateLimitWindow)
                  ELSE h.until]

NoteSuccess(h) == [h EXCEPT !.last = "success"]

\* One loop iteration up to the await (the body of GenBegin).
BeginStep(g, provs, hs, t) ==
  IF g.cands = <<>>
  THEN [g |-> [g EXCEPT !.pc = "raised"], provs |-> provs, hs |-> hs]
  ELSE LET i == PickIdx(g)
       IN IF KindOf(provs, i) = "local"
          THEN [g |-> [g EXCEPT !.pc = "done",
                                !.result = [src |-> i,
                                            text |-> LocalGenerate(g.prompt)]],
                provs |-> provs, hs |-> hs]
          ELSE IF NotAvailable(provs[i])
          THEN LET r == AfterFailure(g, provs, i, {}, t)
               IN [g |-> r.g, provs |-> r.provs,
                   hs |-> [hs EXCEPT ![i] = NoteMarks(@, <<Classify({})>>, t)]]
          ELSE [g |-> [g EXCEPT !.pc = "awaiting",
                                !.issued_early = @ \/ t < hs[i].until],
                provs |-> provs, hs |-> hs]

\* The loop runs on until a request is awaited or generate ends.
RECURSIVE RunLoop(_, _, _, _)
RunLoop(g, provs, hs, t) ==
  IF g.pc # "loop"
  THEN [g |-> g, provs |-> provs, hs |-> hs]
  ELSE LET r == BeginStep(g, provs, hs, t)
       IN RunLoop(r.g, r.provs, r.hs, t)

InitConc ==
  /\ now = 1
  /\ providers \in ConcConfigs
  /\ call = NoCall
  /\ hist = [i \in DOMAIN providers |-> NoEvents]
  /\ gen = [calls |-> [k \in Slots |-> IdleConc]]
  /\ requests = 0
  /\ chat = IdleChat
  /\ sched = IdleSched

\* A generate call is made and runs up to its first await (or to its end).
ConcStart ==
  \E k \in Slots :
    LET scan == get_available_providers(providers, now)
        cands == Candidates(scan.avail)
        n == Len(cands)      \* max_retries is left at None
        g == [IdleConc EXCEPT
                !.pc = "loop", !.cands = cands, !.max_retries = n,
                !.granted_early = \E j \in DOMAIN scan.avail :
                                     now < hist[scan.avail[j]].until]
        r == RunLoop(g, scan.provs, hist, now)
    IN /\ gen.calls[k].pc = "idle"
       /\ \A l \in Slots : l < k => gen.calls[l].pc # "idle"
       /\ requests < MaxConcRequests
       /\ requests' = requests + 1
       /\ providers' = r.provs
       /\ hist' = r.hs
       /\ gen' = [gen EXCEPT !.calls[k] = r.g]
       /\ UNCHANGED <<now, call, sched, chat>>

\* The response a call was waiting for arrives (or its timeout fires); the
\* call runs on to its next await or to its end.
ConcEnd ==
  \E k \in Slots, outcome \in ConcOutcomes :
    LET g == gen.calls[k]
        i == PickIdx(g)
        a == ProviderGenerate(providers[i], outcome, now)
        provs1 == [providers EXCEPT ![i] = a.p]
    IN /\ g.pc = "awaiting"
       /\ IF a.ok
          THEN /\ providers' = provs1
               /\ hist' = [hist EXCEPT ![i] = NoteSuccess(@)]
               /\ gen' = [gen EXCEPT !.calls[k] =
                            [g EXCEPT !.pc = "done",
                                      !.result = [src |-> i,
                                                  text |-> "generated text"]]]
          ELSE LET f == AfterFailure(g, provs1, i, a.msg, now)
                   hs1 == [hist EXCEPT ![i] =
                             NoteMarks(@, a.marks \o <<Classify(a.msg)>>, now)]
                   r == RunLoop(f.g, f.provs, hs1, now)
               IN /\ providers' = r.provs
                  /\ hist' = r.hs
                  /\ gen' = [gen EXCEPT !.calls[k] = r.g]
       /\ UNCHANGED <<now, call, requests, sched, chat>>

\* A call that has returned or raised leaves its slot.
ConcReturn ==
  \E k \in Slots :
    /\ gen.calls[k].pc \in {"done", "raised"}
    /\ gen' = [gen EXCEPT !.calls[k] = IdleConc]
    /\ UNCHANGED <<now, providers, call, hist, requests, sched, chat>>

\* Time passes while every call in progress is suspended.
ConcElapse ==
  /\ \A k \in Slots : gen.calls[k].pc \in {"idle", "awaiting"}
  /\ \E d \in GenDeltas :
       /\ now + d <= MaxTime
       /\ now' = now + d
  /\ UNCHANGED <<providers, call, hist, gen, requests, sched, chat>>

NextConc == ConcStart \/ ConcEnd \/ ConcReturn \/ ConcElapse

SpecConc == InitConc /\ [][NextConc]_vars

----------------------------------------------------------------------------
(* core/llm_manager.py: the LLMManager that BaseAgent.call_llm uses *)

core_max_errors == 3

CoreProvider(kind, available) ==
  [kind |-> kind, available |-> available, error_count |-> 0]

\* LLMProvider.mark_error / reset_errors of core/llm_manager.py
core_mark_error(p) ==
  [p EXCEPT !.error_count = @ + 1,
            !.available = IF p.error_count + 1 >= core_max_errors THEN FALSE ELSE @]

core_reset_errors(p) == [p EXCEPT !.error_count = 0, !.available = TRUE]

\* Provider lists BaseAgent._initialize_llm builds: a lone OllamaProvider
\* (which disables itself) when nothing is configured, else the configured
\* remote adapters.
CoreConfigs ==
  { <<CoreProvider("ollama", FALSE)>>,
    <<CoreProvider("binarybrained", TRUE)>>,
    <<CoreProvider("binarybrained", TRUE), CoreProvider("gemini", TRUE)>>,
    <<CoreProvider("ollama", FALSE), CoreProvider("huggingface", TRUE)>> }

CoreOutcomes == {"ok", "fail"}

IdleCore ==
  [pc |-> "idle", cands |-> <<>>, attempt |-> 0, max_retries |-> 0,
   text |-> "", call_llm |-> "none"]

\* get_available_providers: [p for p in self.providers if p.available]
core_get_available_providers(provs) ==
  SelectSeq([i \in 1 .. Len(provs) |-> i], LAMBDA i : provs[i].available)

\* Lines 228 and 247: raise Exception(...)
CoreAfterLoop(g) == [g EXCEPT !.pc = "raised"]

\* The loop moves on after a failed attempt, or is left.
CoreNextAttempt(g) ==
  IF g.attempt + 1 < g.max_retries
  THEN [g EXCEPT !.attempt = @ + 1, !.pc = "loop"]
  ELSE CoreAfterLoop([g EXCEPT !.attempt = @ + 1])

InitCore ==
  /\ now = 1
  /\ providers \in CoreConfigs
  /\ call = NoCall
  /\ hist = <<>>
  /\ gen = IdleCore
  /\ requests = 0
  /\ chat = IdleChat
  /\ sched = IdleSched

\* call_llm calls generate (base_agent.py line 97); generate up to its loop
\* (lines 225-231).
CoreStart ==
  /\ gen.pc = "idle"
  /\ requests < MaxRequests
  /\ requests' = requests + 1
  /\ \E mr \in 0 .. MaxRetries :
       LET cands == core_get_available_providers(providers)
           g == [IdleCore EXCEPT !.cands = cands,
                                 !.max_retries = IF mr = 0 THEN Len(cands) ELSE mr]
       IN gen' = IF cands = <<>> THEN CoreAfterLoop(g) ELSE [g EXCEPT !.pc = "loop"]
  /\ UNCHANGED <<now, providers, call, hist, sched, chat>>

\* One iteration up to the await inside provider.generate; an adapter that
\* is no longer available raises before any request.
CoreBegin ==
  /\ gen.pc = "loop"
  /\ LET i == gen.cands[(gen.attempt % Len(gen.cands)) + 1]
     IN IF providers[i].available
        THEN gen' = [gen EXCEPT !.pc = "awaiting"]
        ELSE gen' = CoreNextAttempt(gen)
  /\ UNCHANGED <<now, providers, call, hist, requests, sched, chat>>

\* The remote call ends: reset_errors and return, or mark_error, re-raise
\* and continue.
CoreEnd ==
  /\ gen.pc = "awaiting"
  /\ \E outcome \in CoreOutcomes :
       LET i == gen.cands[(gen.attempt % Len(gen.cands)) + 1]
       IN IF outcome = "ok"
          THEN /\ providers' = [providers EXCEPT ![i] = core_reset_errors(@)]
               /\ gen' = [gen EXCEPT !.pc = "done", !.text = "generated text"]
          ELSE /\ providers' = [providers EXCEPT ![i] = core_mark_error(@)]
               /\ gen' = CoreNextAttempt(gen)
  /\ UNCHANGED <<now, call, hist, requests, sched, chat>>

\* BaseAgent.call_llm (lines 90-101): the text is returned to the handler,
\* or the exception is logged and raised again.
CoreCallLlmEnds ==
  /\ gen.pc \in {"done", "raised"}
  /\ gen' = [IdleCore EXCEPT
               !.call_llm = IF gen.pc = "raised" THEN "raises" ELSE "returns"]
  /\ UNCHANGED <<now, providers, call, hist, requests, sched, chat>>

NextCore == CoreStart \/ CoreBegin \/ CoreEnd \/ CoreCallLlmEnds

SpecCore == InitCore /\ [][NextCore]_vars

----------------------------------------------------------------------------
(* AIChatSystem.process_message *)

MaxChats == 2        \* process_message calls in one behaviour

Messages == {"hello", "help"}

\* What BinarybrainedSystem.process_request returns (lines 59-72): the
\* generated text with status active, or, when generation raised, the
\* apology with status error.  It catches every exception itself.
AiResults ==
  { [response |-> "generated text",
     metadata |-> [status |-> "active"]],
    [response |-> "I apologize, but I'm having trouble processing your request.",
     metadata |-> [status |-> "error", error |-> "str(e)"]] }

NoReturn == [success |-> FALSE, response |-> "", error |-> "", metadata |-> <<>>]

NewChat(initialized) ==
  [pc |-> "idle", initialized |-> initialized, calls |-> 0,
   message |-> "", ai |-> [response |-> "", metadata |-> <<>>],
   metadata |-> <<>>, db_failed |-> "no", saved |-> <<>>, ret |-> NoReturn]

\* Mutant: a database error is left to the outer except clause.
process_message_db_fatal(ai, metadata) ==
  IF "db_error" \in DOMAIN metadata
  THEN [success |-> FALSE, response |-> "",
        error |-> "An unexpected error occurred while processing your message.",
        metadata |-> <<>>]
  ELSE [success |-> TRUE, response |-> ai.response, error |-> "",
        metadata |-> metadata]

\* The return of lines 151-155.
process_message_return(ai, metadata) ==
  [success |-> TRUE, response |-> ai.response, error |-> "",
   metadata |-> metadata]

InitChat ==
  /\ now = 1
  /\ providers = <<>>
  /\ call = NoCall
  /\ hist = <<>>
  /\ gen = [pc |-> "idle"]
  /\ requests = 0
  /\ sched = IdleSched
  /\ \E initialized \in BOOLEAN : chat = NewChat(initialized)

\* process_message is entered (lines 106-112): an uninitialized system
\* answers at once with success False.
ChatStart ==
  /\ chat.pc \in {"idle", "returned"}
  /\ chat.calls < MaxChats
  /\ \E message \in Messages :
       chat' = [chat EXCEPT
                  !.calls = @ + 1,
                  !.message = message,
                  !.ai = [response |-> "", metadata |-> <<>>],
                  !.metadata = <<>>,
                  !.db_failed = "no",
                  !.pc = IF chat.initialized THEN "processing" ELSE "returned",
                  !.ret = IF chat.initialized THEN NoReturn
                          ELSE [NoReturn EXCEPT
                                  !.error = "AI system is not ready. Please try again later."]]
  /\ UNCHANGED <<now, providers, call, hist, gen, requests, sched>>

\* Lines 118-121: process_request has returned.
ChatGenerate ==
  /\ chat.pc = "processing"
  /\ \E ai \in AiResults :
       chat' = [chat EXCEPT !.ai = ai, !.metadata = ai.metadata, !.pc = "save_user"]
  /\ UNCHANGED <<now, providers, call, hist, gen, requests, sched>>

\* Lines 125-133 and 145-148: db.collection and the add of the user
\* message; either raises, or the user message is stored.
SaveUser ==
  /\ chat.pc = "save_user"
  /\ \/ chat' = [chat EXCEPT
                   !.saved = Append(@, [sender |-> "user", content |-> chat.message]),
                   !.pc = "save_bot"]
     \/ chat' = [chat EXCEPT
                   !.db_failed = "user",
                   !.metadata = ("db_error" :> "Failed to save message history") @@ @,
                   !.pc = "return"]
  /\ UNCHANGED <<now, providers, call, hist, gen, requests, sched>>

\* Lines 136-148: the add of the bot message.
SaveBot ==
  /\ chat.pc = "save_bot"
  /\ \/ chat' = [chat EXCEPT
                   !.saved = Append(@, [sender |-> "bot", content |-> chat.ai.response]),
                   !.pc = "return"]
     \/ chat' = [chat EXCEPT
                   !.db_failed = "bot",
                   !.metadata = ("db_error" :> "Failed to save message history") @@ @,
                   !.pc = "return"]
  /\ UNCHANGED <<now, providers, call, hist, gen, requests, sched>>

\* Lines 151-155.
ChatReturn ==
  /\ chat.pc = "return"
  /\ chat' = [chat EXCEPT !.ret = process_message_return(chat.ai, chat.metadata),
                          !.pc = "returned"]
  /\ UNCHANGED <<now, providers, call, hist, gen, requests, sched>>

NextChat == ChatStart \/ ChatGenerate \/ SaveUser \/ SaveBot \/ ChatReturn

SpecChat == InitChat /\ [][NextChat]_vars

----------------------------------------------------------------------------
(* Claims about the health tracker, checked under Spec *)

\* C3: immediately after RecordSuccess (reset_errors), whatever the state
\* before it (disabled, rate-limited inside its window, or both), the error
\* count is 0 and CanUse (can_retry) answers true.
C3_ResetMakesUsable ==
  call.op = "reset_errors" =>
    /\ providers[1].error_count = 0
    /\ can_retry(providers[1], now).ret

C3_Witness ==
  /\ call.op = "reset_errors"
  /\ call.at = now
  /\ ~call.pre.available
  /\ call.pre.rate_limited
  /\ call.at < call.pre.rate_limit_reset_time
  /\ can_retry(providers[1], now).ret

\* C4: a backend that was healthy and then took exactly max_errors general
\* failures, nothing else applied, is refused by can_retry as long as no more
\* than cooldown_period has elapsed since the last failure, and is granted at
\* the first check made after more than cooldown_period has elapsed.
C4_GenericCooldown ==
  (call.op = "can_retry" /\ call.streak = max_errors) =>
    (call.ret <=> (call.at - call.pre.last_error_time) > cooldown_period)

C4_Witness ==
  /\ call.op = "can_retry"
  /\ call.streak = max_errors
  /\ call.ret
  /\ call.at - call.pre.last_error_time = cooldown_period + 1

\* C5 (the claim as stated): once an auth failure is recorded, can_retry
\* answers false at every later check, whatever time has elapsed, until
\* reset_errors is called.
C5_AuthNeverRestored ==
  (call.op = "can_retry" /\ call.auth) => ~call.ret

\* C6 (the claim as stated): a check of a rate-limited backend made once the
\* rate-limit window has passed answers true, whatever its available flag,
\* and the window ends strictly before last_error_time + cooldown_period.
\* (Stated for backends with no auth failure on record, which C5 covers.)
C6_RateLimitRecovers ==
  (/\ call.op = "can_retry"
   /\ ~call.auth
   /\ call.pre.rate_limited
   /\ call.at > call.pre.rate_limit_reset_time) =>
    /\ call.ret
    /\ call.pre.rate_limit_reset_time
         < call.pre.last_error_time + cooldown_period

\* C7 (the claim as stated): can_retry answers true whenever available is true.
C7_AvailableImpliesUsable ==
  (call.op = "can_retry" /\ call.pre.available) => call.ret

\* C7 (amended): can_retry answers true whenever available is true and the
\* backend is not inside an unexpired rate-limit window.
InRateLimitWindow(p, t) ==
  /\ p.rate_limited
  /\ p.rate_limit_reset_time # NoTime
  /\ t < p.rate_limit_reset_time

C7_AvailableOutsideWindowUsable ==
  (/\ call.op = "can_retry"
   /\ call.pre.available
   /\ ~InRateLimitWindow(call.pre, call.at)) => call.ret

C7_Witness ==
  /\ call.op = "can_retry"
  /\ call.pre.available
  /\ call.pre.rate_limited
  /\ call.at = call.pre.rate_limit_reset_time
  /\ call.ret

\* C30: a can_retry call that returns false leaves every health field of the
\* backend (available, error_count, last_error_time, rate_limited,
\* rate_limit_reset_time) as it found it.
C30_RefusalChangesNothing ==
  (call.op = "can_retry" /\ ~call.ret) => providers[1] = call.pre

----------------------------------------------------------------------------
(* Claims about LLMManager.generate, checked under SpecGen.  The call's     *)
(* record keeps, beside the loop's own variables: empty (the candidate     *)
(* scan granted nobody), healthy (every configured provider was healthy    *)
(* when the call started), remote (requests sent), tried / failed          *)
(* (attempts begun / attempts that raised), scenario (every remote answer  *)
(* so far fits FitsScenario).                                              *)

\* C1: when the candidate scan grants no provider (none configured, or
\* every can_retry false), generate does not raise, sends no remote request
\* and returns the non-empty text of the offline responder.  (max_retries
\* absent or positive.)
C1_OfflineWhenNoneUsable ==
  (gen.pc # "idle" /\ gen.empty /\ gen.mr >= 0) =>
    /\ gen.pc \in {"loop", "done"}
    /\ gen.remote = 0
    /\ gen.pc = "done" =>
         /\ gen.result.src = LocalIdx
         /\ gen.result.text = LocalGenerate(gen.prompt)
         /\ gen.result.text # ""

C1_Witness ==
  /\ gen.pc = "done"
  /\ gen.empty
  /\ Len(providers) = 3
  /\ \A i \in 1 .. 3 : ~can_retry(providers[i], now).ret
  /\ gen.result.src = LocalIdx

\* C2: for max_retries absent or positive, generate never raises, whatever
\* the health of the backends and the outcome of each call; it ends with a
\* text, and when every attempt it made failed that text is the offline
\* responder's.
C2_NeverRaises ==
  gen.mr >= 0 =>
    /\ gen.pc # "raised"
    /\ gen.pc = "loop" => gen.attempt < gen.max_retries
    /\ gen.pc = "done" =>
         /\ gen.result.src # NoResult.src
         /\ gen.failed = gen.tried =>
              /\ gen.result.src = LocalIdx
              /\ gen.result.text = LocalGenerate(gen.prompt)

C2_Witness ==
  /\ gen.pc = "done"
  /\ Len(gen.cands) = 2
  /\ gen.mr = 3
  /\ gen.remote > 0
  /\ gen.tried = 3
  /\ gen.failed = 3
  /\ gen.result.src = LocalIdx

\* C8: three configured healthy backends, the first two answering every
\* call with a rate-limit error and the third succeeding, max_retries = 3:
\* generate returns the third backend's text, the first two are left
\* rate_limited and the third has error count 0 and is available.
C8_RateLimitedThenSuccess ==
  (/\ gen.pc = "done"
   /\ Len(providers) = 3
   /\ gen.healthy
   /\ gen.mr = 3
   /\ gen.scenario) =>
    /\ gen.result.src = 3
    /\ providers[1].rate_limited
    /\ providers[2].rate_limited
    /\ providers[3].error_count = 0
    /\ providers[3].available

C8_Witness ==
  /\ gen.pc = "done"
  /\ Len(providers) = 3
  /\ gen.healthy
  /\ gen.mr = 3
  /\ gen.scenario
  /\ gen.remote = 3
  /\ gen.result.src = 3

LastFailed == gen.last.idx > 0 /\ gen.last.outcome # "ok"
LastProvider == providers[gen.last.idx]
GenericOutcomes == {"invalid", "http500", "timeout"}

\* C18 (the claim as stated): a failed backend call inside generate raises
\* that backend's error count by exactly 1, whatever the failure kind, so a
\* healthy backend is still usable after a single generic failure.
C18_OneFailurePerCall ==
  LastFailed =>
    /\ LastProvider.error_count = gen.last.before.error_count + 1
    /\ (Healthy(gen.last.before) /\ gen.last.outcome \in GenericOutcomes) =>
         can_retry(LastProvider, now).ret

\* C19 (the claim as stated): each failed call is recorded under one failure
\* kind: HTTP 401 and 403 as auth with the backend disabled at once, HTTP
\* 429 as rate_limit with rate_limited set, and every other failure, a
\* timeout included, as general only, leaving rate_limited as it was.
C19_Classification ==
  LastFailed =>
    /\ gen.last.outcome \in {"http401", "http403"} =>
         /\ Range(gen.last.marks) = {"auth"}
         /\ ~LastProvider.available
    /\ gen.last.outcome = "http429" =>
         /\ Range(gen.last.marks) = {"rate_limit"}
         /\ LastProvider.rate_limited
    /\ gen.last.outcome \in GenericOutcomes =>
         /\ Range(gen.last.marks) = {"general"}
         /\ LastProvider.rate_limited = gen.last.before.rate_limited

Configured(i) == i # LocalIdx

\* The configured providers can_retry grants at this instant, in list order.
Usable == Sorted({i \in 1 .. Len(providers) : can_retry(providers[i], now).ret})

\* C20: generate's candidate list is the configured backends can_retry
\* grants, in configuration order; every call goes to the candidate whose
\* turn it is; the first call that succeeds ends the invocation with that
\* backend's text, all earlier calls having failed and no call following;
\* and the successful backend is left with error count 0 and available.
C20_StopsAtFirstSuccess ==
  /\ [][(gen.pc = "idle" /\ gen'.pc # "idle") =>
          SelectSeq(gen'.cands, Configured) = Usable]_vars
  /\ [][gen.pc = "done" => (gen'.pc = "idle" /\ UNCHANGED providers)]_vars
  /\ [](gen.last.idx > 0 =>
          gen.last.idx = gen.cands[((gen.tried - 1) % Len(gen.cands)) + 1])
  /\ [](gen.last.outcome = "ok" =>
          /\ gen.pc = "done"
          /\ gen.result.src = gen.last.idx
          /\ gen.failed = gen.tried - 1
          /\ LastProvider.error_count = 0
          /\ LastProvider.available)

C20_Witness ==
  /\ gen.pc = "done"
  /\ gen.last.outcome = "ok"
  /\ gen.cands = <<1, 3>>
  /\ gen.tried = 2
  /\ gen.result.src = 3
  /\ gen.failed = 1
  /\ ~providers[2].available

\* C21: within one generate call the candidate snapshot and the number of
\* attempts (max_retries or the number of candidates) are fixed at entry;
\* the call of attempt i (0-based, i below the number of attempts) goes to
\* candidates[i mod n]; and a candidate that is not available when its turn
\* comes, for instance one disabled by an earlier attempt of this call, has
\* its generate called all the same.
C21_SnapshotRoundRobin ==
  /\ [][(gen.pc # "idle" /\ gen'.pc # "idle") =>
          (gen'.cands = gen.cands /\ gen'.max_retries = gen.max_retries)]_vars
  /\ [](gen.pc # "idle" =>
          gen.max_retries = IF gen.mr = 0 THEN Len(gen.cands) ELSE gen.mr)
  /\ [](gen.last.idx > 0 =>
          /\ gen.tried <= gen.max_retries
          /\ gen.last.idx = gen.cands[((gen.tried - 1) % Len(gen.cands)) + 1])
  /\ [][(/\ gen.pc = "loop"
         /\ gen.cands # <<>>
         /\ gen.cands[(gen.tried % Len(gen.cands)) + 1] # LocalIdx
         /\ ~providers[gen.cands[(gen.tried % Len(gen.cands)) + 1]].available) =>
          /\ gen'.tried = gen.tried + 1
          /\ gen'.last.outcome = "not_available"
          /\ gen'.last.idx = gen.cands[(gen.tried % Len(gen.cands)) + 1]]_vars

C21_Witness ==
  /\ gen.last.outcome = "not_available"
  /\ gen.last.before.has_key
  /\ ~gen.last.before.available
  /\ gen.tried > Len(gen.cands)
  /\ gen.mr > Len(gen.cands)
  /\ gen.healthy

\* C22 (the claim as stated): re-attempting, within the same generate call,
\* a backend that is already disabled leaves its health record unchanged,
\* error count and last_error_time included.
C22_DisabledRetryIdempotent ==
  (gen.last.outcome = "not_available" /\ ~gen.last.before.available) =>
    LastProvider = gen.last.before

----------------------------------------------------------------------------
(* Claims about concurrent generate calls, checked under SpecConc *)

InProgress(k) == gen.calls[k].pc = "awaiting"

\* C27: in every state reached by concurrent generate calls sharing the
\* backends, each backend with error_count >= max_errors is not available,
\* and each backend whose last recorded event was a success has error_count
\* 0 and no last_error_time.
C27_HealthConsistent ==
  \A i \in DOMAIN providers :
    /\ providers[i].error_count >= max_errors => ~providers[i].available
    /\ hist[i].last = "success" =>
         /\ providers[i].error_count = 0
         /\ providers[i].last_error_time = NoTime

\* Two calls were waiting on backend 1 together; one recorded a failure on
\* it, then the other's success was recorded, and a call is still waiting.
C27_Witness ==
  \E k \in Slots, l \in Slots :
    /\ k # l
    /\ gen.calls[k].pc = "done"
    /\ gen.calls[k].result.src = 1
    /\ InProgress(l)
    /\ gen.calls[l].attempt = 1
    /\ hist[1].last = "success"
    /\ now < hist[1].until
    /\ providers[1].error_count = 0

\* C28: a rate limit or auth failure recorded on a backend is not undone by
\* a concurrent call: until the rate-limit window (after a rate limit) or the
\* cooldown (after an auth failure) has run out, no candidate scan grants the
\* backend and no request is sent to it, even when a call that was already
\* waiting on it succeeds in the meantime.
C28_RecordedLimitStands ==
  \A k \in Slots :
    /\ ~gen.calls[k].granted_early
    /\ ~gen.calls[k].issued_early

----------------------------------------------------------------------------
(* Claims about execute_plan, checked under SpecPlan *)

Positions == DOMAIN sched.plan
Ended(j) == sched.outcome[j] # "none"

\* C9: whenever a task has been started, every task of lower priority that
\* the scheduler runs has already ended (success, failure, exception or
\* timeout), whatever the order of the plan list; and no task of a group
\* has ended before all runnable tasks of that group were started.
C9_PriorityOrder ==
  \A i \in Positions, j \in Positions :
    /\ (sched.plan[i].priority < sched.plan[j].priority /\ j \in sched.started) =>
         (sched.plan[i].agent \in Registry => (i \in sched.started /\ Ended(i)))
    /\ (/\ sched.plan[i].priority = sched.plan[j].priority
        /\ sched.plan[i].agent \in Registry
        /\ sched.plan[j].agent \in Registry
        /\ Ended(i)) => j \in sched.started

C9_Witness ==
  /\ Len(sched.plan) = 3
  /\ sched.plan[1].priority = 2
  /\ sched.plan[2].priority = 1
  /\ sched.plan[3].priority = 1
  /\ \A j \in 1 .. 3 : sched.plan[j].agent \in Registry
  /\ sched.started = {1, 2, 3}
  /\ sched.outcome = <<"none", "timeout", "raise">>

\* The plan of the end-to-end scenario: a and c name a registered handler,
\* b an unregistered one.
ScenarioPlan ==
  << [agent |-> "echo", priority |-> 1],
     [agent |-> "missing", priority |-> 1],
     [agent |-> "echo", priority |-> 2] >>

\* C10 (the claim as stated): when execute_plan returns, every task naming
\* an unregistered handler has an entry under its own id holding a
\* handler-not-found failure; for the scenario plan the keys are a, b, c.
C10_MissingHandlerRecorded ==
  sched.phase = "done" =>
    /\ \A j \in Positions :
         sched.plan[j].agent \notin Registry =>
           /\ TaskIds[j] \in DOMAIN sched.results
           /\ sched.results[TaskIds[j]].kind = "error"
           /\ sched.results[TaskIds[j]].why = "handler not found"
    /\ sched.plan = ScenarioPlan => DOMAIN sched.results = {"a", "b", "c"}

OwnId(j) == TaskIds[j]

\* C11 (the claim as stated): for any plan with unique ids, every entry of
\* the result map returned by execute_plan is stored under the id of the
\* task that produced it, also when tasks naming unregistered handlers come
\* before registered ones of the same priority group.
C11_ResultsUnderOwnId ==
  sched.phase \in {"done", "responded"} =>
    \A id \in DOMAIN sched.results : OwnId(sched.results[id].by) = id

\* C12 (the claim as stated): whatever the handlers do (success, failure
\* response, exception), when execute_plan returns every task with a
\* registered handler has been invoked and has ended, and every task that
\* failed or raised has its failure recorded as its own result.
C12_FailureNeverAborts ==
  sched.phase \in {"done", "responded"} =>
    \A j \in Positions :
      sched.plan[j].agent \in Registry =>
        /\ j \in sched.started
        /\ Ended(j)
        /\ sched.outcome[j] \in {"failure", "raise"} =>
             /\ OwnId(j) \in DOMAIN sched.results
             /\ sched.results[OwnId(j)] = TaskResult(j, sched.outcome[j])

\* C13 (the claim as stated): when execute_plan returns, a task that timed
\* out is recorded as a timeout failure under its own id, its siblings'
\* results are those their own handlers produced, and the registered tasks
\* of the later priority groups have run.
C13_TimeoutRecorded ==
  sched.phase \in {"done", "responded"} =>
    \A j \in Positions :
      sched.outcome[j] = "timeout" =>
        /\ OwnId(j) \in DOMAIN sched.results
        /\ sched.results[OwnId(j)].why = "timed out"
        /\ sched.results[OwnId(j)].by = j
        /\ \A i \in Positions :
             (sched.plan[i].agent \in Registry /\ i # j) =>
               /\ Ended(i)
               /\ (sched.plan[i].priority = sched.plan[j].priority
                   /\ OwnId(i) \in DOMAIN sched.results) =>
                    sched.results[OwnId(i)] = TaskResult(i, sched.outcome[i])

InFlight == {j \in sched.started : ~Ended(j)}

\* C14 (the claim as stated): while a priority group runs, the number of
\* tasks in flight never exceeds max_concurrent_agents, whatever the size
\* of the group.
C14_BoundedConcurrency ==
  Cardinality(InFlight) <= sched.max_concurrent_agents

\* C15 (the claim as stated): once a plan exists, whatever the tasks do
\* (success with or without data, failure, exception, timeout, unregistered
\* handler) and whether or not the consolidation call fails, process returns
\* success = True with a non-empty result text.
C15_ProcessAlwaysSucceeds ==
  sched.phase = "responded" =>
    /\ sched.response.success
    /\ sched.response.result # ""

----------------------------------------------------------------------------
(* Claims about execute_plan, checked under SpecPlanFair *)

\* C26: a plan execution terminates.  The for loop reaches the priority
\* groups in ascending order, each once; no task is invoked more than once;
\* and, every handler invocation ending, execute_plan eventually returns,
\* having by then reached every group and invoked every runnable task once.
C26_PlanTerminates ==
  /\ [](/\ \A j \in Positions : sched.invocations[j] <= 1
        /\ Len(sched.visited) <= Len(sched.order)
        /\ sched.visited = SubSeq(sched.order, 1, Len(sched.visited))
        /\ \A k \in 1 .. Len(sched.order) - 1 : sched.order[k] < sched.order[k + 1])
  /\ [](sched.phase = "done" =>
          /\ sched.visited = sched.order
          /\ \A j \in Positions :
               /\ sched.invocations[j] =
                    (IF sched.plan[j].agent \in Registry THEN 1 ELSE 0)
               /\ sched.plan[j].agent \in Registry => Ended(j))
  /\ <>(sched.phase = "done")

C26_Witness ==
  /\ sched.phase = "done"
  /\ Len(sched.plan) = 3
  /\ sched.visited = <<1, 2>>
  /\ sched.invocations = <<1, 1, 1>>
  /\ sched.outcome = <<"timeout", "raise", "success">>

----------------------------------------------------------------------------
(* Claims about execute_plan on plans with dependencies, checked under SpecDeps *)

DependsOn(i, j) == OwnId(j) \in sched.plan[i].dependencies
Registered(j) == sched.plan[j].agent \in Registry

----------------------------------------------------------------------------
(* Claims about plan construction, checked under SpecCreate *)

\* C16 (the claim as stated): whatever raw steps the planning backend
\* returns (fields missing, zero, negative or duplicated), the plan handed
\* to execute_plan has an integer priority >= 1 on every task and no two
\* tasks with the same id.
C16_PlanInvariant ==
  sched.phase = "planned" =>
    /\ \A k \in DOMAIN sched.plan : sched.plan[k].priority >= 1
    /\ \A k \in DOMAIN sched.plan, l \in DOMAIN sched.plan :
         k # l => sched.plan[k].id # sched.plan[l].id

----------------------------------------------------------------------------
(* Claims about process_message, checked under SpecChat *)

Without(f, k) == [x \in DOMAIN f \ {k} |-> f[x]]

\* C17: when saving the user message or the bot message raises,
\* process_message still returns success = True with the generated response
\* text, and the return differs from the one of the no-failure case only by
\* the db_error entry added to the metadata.
C17_DbFailureNotFatal ==
  (chat.pc = "returned" /\ chat.db_failed # "no") =>
    /\ chat.ret.success
    /\ chat.ret.response = chat.ai.response
    /\ "db_error" \in DOMAIN chat.ret.metadata
    /\ "db_error" \notin DOMAIN chat.ai.metadata
    /\ [chat.ret EXCEPT !.metadata = Without(@, "db_error")]
         = process_message_return(chat.ai, chat.ai.metadata)

C17_Witness ==
  /\ chat.pc = "returned"
  /\ chat.db_failed = "bot"
  /\ chat.ret.success
  /\ chat.ret.response = "generated text"
  /\ Len(chat.saved) = 1

----------------------------------------------------------------------------
(* Claims about the assembled system, checked under SpecEnh *)

StartedEnh == Range(sched.started)

\* C24 (the claim as stated): in _execute_with_context every task with a
\* lower priority value is started before any task with a higher priority
\* value, whatever the order of the plan list.
C24_EnhancedPriorityOrder ==
  \A i \in DOMAIN sched.plan, j \in DOMAIN sched.plan :
    (/\ sched.plan[i].priority < sched.plan[j].priority
     /\ sched.plan[i].agent \in AssembledRegistry
     /\ j \in StartedEnh) => i \in StartedEnh

\* C29 (the claim as stated): every agent name in a plan that comes from
\* _validate_plan or from a fallback plan is registered in the assembled
\* system, so the registry lookup passes over no task.
C29_PlanAgentsRegistered ==
  (sched.phase \in {"run", "done"} /\ sched.route = "other") =>
    /\ \A k \in DOMAIN sched.plan : sched.plan[k].agent \in AssembledRegistry
    /\ sched.skipped = {}

----------------------------------------------------------------------------
(* Claims about the generation router of the task handlers, checked under SpecCore *)

\* C25 (the claim as stated): generate of core.llm_manager, reached through
\* call_llm, returns text and never raises, also when every provider call
\* fails or no provider is available; the handler sees no exception.
C25_RouterNeverRaises ==
  /\ gen.pc # "raised"
  /\ gen.call_llm # "raises"

====
